---- MODULE Spec2Model ----
(***************************************************************************)
(* Model of the docuverse retrieval core (src/src/dv): the identifier      *)
(* sanitiser, the SQLite document store (save_document,                    *)
(* generate_and_save_embeddings) and the similarity search.                *)
(*                                                                         *)
(* Strings are sequences of one-character strings, so that splitting,      *)
(* lower-casing and joining are computed character by character.           *)
(***************************************************************************)
EXTENDS Integers, Sequences, FiniteSets, TLC

VARIABLES
    sanIn,      \* sanitiser run: the name handed to sanitise_table_name
    sanOut,     \* sanitiser run: the value it returned
    disk,       \* the database file: committed tables and rows
    view,       \* the open connection's view: disk plus its uncommitted changes
    connOpen,   \* whether the ingest connection is open
    failOn,     \* the chunk text the embedding service currently fails on (or NoChunk)
    last,       \* the last store operation: its name, inputs and return value
    reidx,      \* progress of a save/generate/save/generate sequence on one document
    found,      \* the list returned by the last query_similarity call
    embeddings, \* the module global dv.config.embeddings: Model, or NULL when none is set
    dbOk,       \* whether the database file can be opened
    chain,      \* the QAChain of the session: its chat_history lists
    llmOk,      \* whether the completion service answers
    sent,       \* the last request handed to the completion service
    reply,      \* the value returned by the last QAChain.query
    since,      \* the turns of the successful queries since the chain was made or reset
    qaLast,     \* the last session operation, its input and the history it found
    cosA,       \* cosine run: the first vector handed to cosine_similarity
    cosB,       \* cosine run: the second vector
    cosOut,     \* cosine run: the values returned for (cosA, cosB) and (cosB, cosA)
    pass,       \* stepwise ingest pass: the statement reached, the files and tables left
    scan,       \* stepwise search on its own connection: the tables left, the results so far
    gui         \* the window: state of its widgets, text of the entry, focus, worker threads

sanVars == <<sanIn, sanOut>>
storeVars == <<disk, view, connOpen, failOn, last, reidx, found>>
cfgVars == <<embeddings, dbOk>>
qaVars == <<chain, llmOk, sent, reply, since, qaLast>>
cosVars == <<cosA, cosB, cosOut>>
passVars == <<pass, scan>>
guiVars == <<gui>>
extVars == <<cosVars, passVars, guiVars>>

vars == <<sanVars, storeVars, cfgVars, qaVars, extVars>>

----------------------------------------------------------------------------
(* Bounds *)

MaxNameLen == 6
MaxK == 2

----------------------------------------------------------------------------
(* Generic helpers *)

Min(a, b) == IF a <= b THEN a ELSE b

Range(s) == {s[i] : i \in 1..Len(s)}

RECURSIVE Concat(_)
\* the concatenation of a sequence of sequences
Concat(ss) == IF ss = <<>> THEN <<>> ELSE Head(ss) \o Concat(Tail(ss))

----------------------------------------------------------------------------
(* sanitise_table_name, database.py:90-114 *)

max_words == 3

WhitespaceChars == {" "}
SeparatorChars == WhitespaceChars \cup {"_", "-"}
DigitChars == {"0", "1", "2", "3", "4", "5", "6", "7", "8", "9"}
NameChars == {"a", "B", "1", " ", "_", "-"}

\* str.lower on one character
LowerChar(c) == IF c = "B" THEN "b" ELSE IF c = "A" THEN "a" ELSE c

Lower(s) == [i \in 1..Len(s) |-> LowerChar(s[i])]

RECURSIVE Strip(_)
\* str.strip: drops leading and trailing whitespace
Strip(s) ==
    IF s = <<>> THEN s
    ELSE IF Head(s) \in WhitespaceChars THEN Strip(Tail(s))
    ELSE IF s[Len(s)] \in WhitespaceChars THEN Strip(SubSeq(s, 1, Len(s) - 1))
    ELSE s

RECURSIVE SkipSeparators(_, _)
\* the first index >= i of s that is not a separator (Len(s)+1 if none)
SkipSeparators(s, i) ==
    IF i > Len(s) \/ s[i] \notin SeparatorChars THEN i
    ELSE SkipSeparators(s, i + 1)

RECURSIVE ReSplitFrom(_, _, _, _)
ReSplitFrom(s, i, cur, acc) ==
    IF i > Len(s) THEN Append(acc, cur)
    ELSE IF s[i] \in SeparatorChars
         THEN ReSplitFrom(s, SkipSeparators(s, i), <<>>, Append(acc, cur))
         ELSE ReSplitFrom(s, i + 1, Append(cur, s[i]), acc)

\* re.split(r"[\s_-]+", s): a leading or trailing separator run yields an
\* empty first or last part
ReSplit(s) == ReSplitFrom(s, 1, <<>>, <<>>)

RECURSIVE JoinUnderscore(_)
\* "_".join(parts)
JoinUnderscore(parts) ==
    IF parts = <<>> THEN <<>>
    ELSE IF Len(parts) = 1 THEN parts[1]
    ELSE parts[1] \o <<"_">> \o JoinUnderscore(Tail(parts))

NonBlank(part) == Strip(part) # <<>>

\* raw_parts[:max_words]
FirstParts(raw_parts) == SubSeq(raw_parts, 1, Min(max_words, Len(raw_parts)))

sanitise_table_name(table_name) ==
    LET raw_parts == ReSplit(table_name)
        kept      == SelectSeq(FirstParts(raw_parts), NonBlank)
        parts     == [i \in 1..Len(kept) |-> Lower(Strip(kept[i]))]
        sanitised == JoinUnderscore(parts)
    IN  IF sanitised # <<>> /\ sanitised[1] \in DigitChars
        THEN <<"d", "o", "c", "_">> \o sanitised
        ELSE sanitised

----------------------------------------------------------------------------
(* Documents, chunks and the embedding service *)

\* model-scale settings.CHUNK_SIZE (config.py:57)
ChunkSize == 1

\* settings.CHUNK_OVERLAP = int(CHUNK_SIZE * 0.2), config.py:59-62
ChunkOverlap == (ChunkSize * 2) \div 10

\* SQL NULL / Python None, kept a sequence so that it compares with texts
NULL == <<"NULL">>

\* the file cannot be opened or read
NoFile == <<"NOFILE">>

\* the embedding service fails on no chunk
NoChunk == <<"NOCHUNK">>

\* the embeddings object of config.py:136
Model == <<"MODEL">>

\* document names handed to save_document (file name stems)
DocNames == { <<"a">>, <<"B">>, <<"1", "_", "a", "_", "a">>, <<"-">> }

\* document texts: empty, blank (no chunk), one chunk, two chunks
Texts == { <<>>, <<" ">>, <<"a">>, <<"a", "b">> }

RECURSIVE Windows(_, _)
\* consecutive windows of ChunkSize characters, each starting ChunkOverlap
\* characters before the end of the previous one
Windows(text, start) ==
    IF start > Len(text) THEN <<>>
    ELSE LET stop == Min(start + ChunkSize - 1, Len(text))
         IN  <<SubSeq(text, start, stop)>> \o
             (IF stop >= Len(text) THEN <<>>
              ELSE Windows(text, start + ChunkSize - ChunkOverlap))

\* text_splitter.split_text(text): the windows, stripped, blank ones dropped
split_text(text) ==
    LET w == Windows(text, 1)
        stripped == [i \in 1..Len(w) |-> Strip(w[i])]
    IN  SelectSeq(stripped, LAMBDA c : c # <<>>)

\* every chunk text the documents can produce
AllChunks == UNION { Range(split_text(t)) : t \in Texts }

Count(s, c) == Cardinality({i \in 1..Len(s) : s[i] = c})

\* embeddings.embed_query(text) when the service answers: a fixed-length
\* vector, a function of the text alone
embed_query(text) == <<Count(text, "a"), Count(text, "b")>>

\* str(x) for a component of a vector
FloatStr(x) ==
    IF x = 0 THEN "0.0" ELSE IF x = 1 THEN "1.0" ELSE IF x = 2 THEN "2.0"
    ELSE IF x = 3 THEN "3.0" ELSE "4.0"

\* float(s) for a decimal token
StrFloat(s) ==
    IF s = "0.0" THEN 0 ELSE IF s = "1.0" THEN 1 ELSE IF s = "2.0" THEN 2
    ELSE IF s = "3.0" THEN 3 ELSE 4

RECURSIVE JoinComma(_)
JoinComma(toks) ==
    IF toks = <<>> THEN <<>>
    ELSE IF Len(toks) = 1 THEN <<toks[1]>>
    ELSE <<toks[1], ",">> \o JoinComma(Tail(toks))

\* bytes(",".join(map(str, vector)), "utf-8")
vector_bytes(vector) == JoinComma([i \in 1..Len(vector) |-> FloatStr(vector[i])])

\* [float(x) for x in embedding_bytes.decode("utf-8").split(",")]
stored_embedding(bytes) ==
    LET toks == SelectSeq(bytes, LAMBDA t : t # ",")
    IN  [i \in 1..Len(toks) |-> StrFloat(toks[i])]

----------------------------------------------------------------------------
(* The database: tables in creation order, rows in rowid order *)

TableNames ==
    ({sanitise_table_name(n) : n \in DocNames}
       \cup {sanitise_table_name(sanitise_table_name(n)) : n \in DocNames})
    \ {<<>>}

EmptyDB == [order |-> <<>>, rows |-> [t \in TableNames |-> <<>>]]

TableExists(db, t) == t \in Range(db.order)

IsPlaceholder(r) == r.embeddings = NULL
IsFinal(r) == r.chunk_text # NULL /\ r.embeddings # NULL

\* Python truthiness of a fetched text column
Truthy(text) == text # NULL /\ text # <<>>

\* rowid given to a row inserted without an id (INTEGER PRIMARY KEY, no
\* AUTOINCREMENT): one more than the largest rowid in the table
NextRowId(rows) == IF rows = <<>> THEN 1 ELSE rows[Len(rows)].id + 1

HasId(rows, id) == \E i \in 1..Len(rows) : rows[i].id = id

\* the rows with r added at its rowid position
InsertRow(rows, r) ==
    LET before == SelectSeq(rows, LAMBDA x : x.id < r.id)
        after  == SelectSeq(rows, LAMBDA x : x.id > r.id)
    IN  before \o <<r>> \o after

DeleteRow(rows, id) == SelectSeq(rows, LAMBDA x : x.id # id)

\* conn.commit(): the connection's pending changes reach the file
Commit(st) == [disk |-> st.view, view |-> st.view]

SetRows(st, t, rows) ==
    [st EXCEPT !.view.rows[t] = rows]

----------------------------------------------------------------------------
(* create_table_for_document, database.py:51-86 *)

\* the result of a call: st is the connection state it leaves, raised
\* whether it ended in an exception
Returned(st) == [st |-> st, raised |-> FALSE]
Raised(st) == [st |-> st, raised |-> TRUE]

create_table_for_document(st, table_name) ==
    LET safe_table_name == sanitise_table_name(table_name)
    IN  IF safe_table_name = <<>>
        THEN Raised(st)                       \* CREATE TABLE with no name: syntax error
        ELSE IF TableExists(st.view, safe_table_name)
        THEN Returned(st)
        ELSE Returned(Commit(
                 [st EXCEPT !.view.order = Append(@, safe_table_name),
                            !.view.rows[safe_table_name] = <<>>]))

----------------------------------------------------------------------------
(* save_document, database.py:139-180 *)

\* if count > 0 (line 167)
NeedsClearStale(count) == count > 1
NeedsClear(count) == count > 0

\* DELETE FROM table (line 169)
ClearTableKeepFinal(rows) == SelectSeq(rows, LAMBDA r : ~IsPlaceholder(r))
ClearTable(rows) == <<>>

\* INSERT INTO table (raw_text) VALUES (text) (line 174)
PlaceholderRow(rows, text) ==
    [id |-> NextRowId(rows), raw_text |-> text, chunk_text |-> NULL, embeddings |-> NULL]

\* the value returned, the connection state left, and the row count read at line 165
SaveResult(ret, st, count) == [ret |-> ret, st |-> st, count |-> count]

save_document_table_first(st, content, table_name) ==
    SaveResult(FALSE, create_table_for_document(st, sanitise_table_name(table_name)).st, -1)
save_document(st, content, table_name) ==
    IF content = NoFile THEN SaveResult(FALSE, st, -1)       \* open() raises
    ELSE
    LET safe_table_name == sanitise_table_name(table_name)
        created == create_table_for_document(st, safe_table_name)
        st1     == created.st
    IN  IF created.raised THEN SaveResult(FALSE, st1, -1)
        ELSE IF ~TableExists(st1.view, safe_table_name)
        THEN SaveResult(FALSE, st1, -1)                      \* SELECT COUNT(*): no such table
        ELSE
        LET count == Len(st1.view.rows[safe_table_name])
            st2 == IF NeedsClear(count)
                   THEN Commit(SetRows(st1, safe_table_name,
                                       ClearTable(st1.view.rows[safe_table_name])))
                   ELSE st1
            rows2 == st2.view.rows[safe_table_name]
            st3 == Commit(SetRows(st2, safe_table_name,
                                  InsertRow(rows2, PlaceholderRow(rows2, content))))
        IN  SaveResult(TRUE, st3, count)

----------------------------------------------------------------------------
(* generate_and_save_embeddings, database.py:184-247 *)

\* the multiplier of line 230
IdStride == 10000

\* new_id = (doc_id * 10000) + i + 1, i counted from 0 (line 230)
NewIdZeroBased(doc_id, i) == (doc_id * IdStride) + i
NewId(doc_id, i) == (doc_id * IdStride) + i + 1

\* raw_text = text if i == 0 else None (line 231)
RawTextForAll(text, i) == text
RawTextFor(text, i) == IF i = 0 THEN text ELSE NULL

\* the outcome of a loop: the connection state, whether an exception left
\* it, and the INSERTs executed so far
GenResult(st, raised, log) == [st |-> st, raised |-> raised, log |-> log]

RECURSIVE EmbedChunks(_, _, _, _, _, _, _, _)
\* for i, chunk in enumerate(chunks) (lines 220-235), from index i on
EmbedChunks(st, fail, table, doc_id, text, chunks, i, log) ==
    IF i >= Len(chunks) THEN GenResult(st, FALSE, log)
    ELSE
    LET chunk == chunks[i + 1]
    IN  IF chunk = fail THEN GenResult(st, TRUE, log)        \* embed_query raises
        ELSE
        LET vector == embed_query(chunk)
            new_id == NewId(doc_id, i)
            rows   == st.view.rows[table]
            row    == [id |-> new_id, raw_text |-> RawTextFor(text, i),
                       chunk_text |-> chunk, embeddings |-> vector_bytes(vector)]
            entry  == [table |-> table, doc_id |-> doc_id, i |-> i, id |-> new_id,
                       chunk |-> chunk,
                       placeholders |-> {r.id : r \in {x \in Range(rows) : IsPlaceholder(x)}}]
        IN  IF HasId(rows, new_id)
            THEN GenResult(st, TRUE, log)                    \* PRIMARY KEY conflict
            ELSE EmbedChunks(SetRows(st, table, InsertRow(rows, row)), fail,
                             table, doc_id, text, chunks, i + 1, Append(log, entry))

\* DELETE FROM table WHERE id = doc_id; conn.commit() (lines 238-240)
DeletePlaceholder(st, table, doc_id) ==
    Commit(SetRows(st, table, DeleteRow(st.view.rows[table], doc_id)))

RECURSIVE EmbedDocs(_, _, _, _, _)
RECURSIVE EmbedRest(_, _, _, _, _)
\* the rest of the loop over docs once the chunks of doc_id are done
EmbedRest(done, fail, table, doc_id, docs) ==
    IF done.raised THEN done
    ELSE EmbedDocs(DeletePlaceholder(done.st, table, doc_id), fail, table, docs, done.log)

\* for doc_id, text in docs (lines 212-241)
EmbedDocs(st, fail, table, docs, log) ==
    IF docs = <<>> THEN GenResult(st, FALSE, log)
    ELSE IF ~Truthy(Head(docs).raw_text) THEN EmbedDocs(st, fail, table, Tail(docs), log)
    ELSE IF embeddings = NULL THEN GenResult(st, TRUE, log)  \* raise ValueError (line 219)
    ELSE EmbedRest(EmbedChunks(st, fail, table, Head(docs).id, Head(docs).raw_text,
                               split_text(Head(docs).raw_text), 0, log),
                   fail, table, Head(docs).id, Tail(docs))

\* SELECT id, raw_text FROM table WHERE embeddings IS NULL (line 209)
UnembeddedAll(rows) == rows
Unembedded(rows) == SelectSeq(rows, IsPlaceholder)

RECURSIVE EmbedTables(_, _, _, _)
RECURSIVE EmbedNextTables(_, _, _)
\* the rest of the loop over tables once the docs of a table are done
EmbedNextTables(done, fail, tables) ==
    IF done.raised THEN done
    ELSE EmbedTables(done.st, fail, tables, done.log)

\* for table in tables (lines 207-241)
EmbedTables(st, fail, tables, log) ==
    IF tables = <<>> THEN GenResult(st, FALSE, log)
    ELSE EmbedNextTables(
             EmbedDocs(st, fail, Head(tables),
                       Unembedded(st.view.rows[Head(tables)]), log),
             fail, Tail(tables))

\* ret is the value returned: False when an exception was caught (line 245)
GenReturn(done) == [ret |-> ~done.raised, st |-> done.st, log |-> done.log]

generate_and_save_embeddings(st, fail) ==
    GenReturn(EmbedTables(st, fail, st.view.order, <<>>))

----------------------------------------------------------------------------
(* State machine of the store *)

Op(op, name, content, ret, count, log) ==
    [op |-> op, name |-> name, content |-> content, ret |-> ret,
     count |-> count, log |-> log]

NoReidx == [stage |-> 0, name |-> <<>>, content |-> <<>>, rows |-> <<>>, ret |-> FALSE]

ConnState == [disk |-> disk, view |-> view]

InitStore ==
    /\ disk = EmptyDB
    /\ view = EmptyDB
    /\ connOpen = FALSE
    /\ failOn = NoChunk
    /\ last = Op("init", <<>>, <<>>, TRUE, -1, <<>>)
    /\ reidx = NoReidx
    /\ found = <<>>

InitSanIdle ==
    /\ sanIn = <<>>
    /\ sanOut = <<>>

\* config.py:136 sets the embeddings object; the database can be opened
InitCfg ==
    /\ embeddings = Model
    /\ dbOk = TRUE

\* QAChain.__init__ (qa.py:48): self.chat_history = [].  current is the list
\* bound to self.chat_history, initial the list made by __init__, same tells
\* whether they are still one object.
NewChain == [current |-> <<>>, initial |-> <<>>, same |-> TRUE]

NoRequest == [made |-> FALSE, context |-> <<>>, history |-> <<>>, question |-> <<>>]
NoReply == [kind |-> "none", text |-> <<>>]
\* before: self.chat_history when the operation began; raised: an exception
\* left the operation; stage: the step of a query that failed
QaOp(op, question, before, raised, stage) ==
    [op |-> op, question |-> question, before |-> before, raised |-> raised,
     stage |-> stage]

InitQAIdle ==
    /\ chain = NewChain
    /\ llmOk = TRUE
    /\ sent = NoRequest
    /\ reply = NoReply
    /\ since = <<>>
    /\ qaLast = QaOp("init", <<>>, <<>>, FALSE, "none")

\* exit: the path on which the operation returned
NoPass == [pc |-> "idle", files |-> <<>>, tables |-> <<>>, ret |-> FALSE, exit |-> "none"]
NoScan == [pc |-> "idle", open |-> FALSE, query |-> <<>>, tables |-> <<>>, ti |-> 0,
           results |-> <<>>, exit |-> "none"]

InitPassIdle ==
    /\ pass = NoPass
    /\ scan = NoScan

\* QAApplication.__init__ (gui.py:72-121): widgets enabled, the entry empty
\* and holding the keyboard focus, no worker thread
NewGui == [enabled |-> TRUE, entry |-> <<>>, focus |-> TRUE, workers |-> <<>>]

InitGuiIdle == gui = NewGui

\* no cosine run, ingest pass or search is under way
InitExtIdle ==
    /\ cosA = <<>>
    /\ cosB = <<>>
    /\ cosOut = <<>>
    /\ InitPassIdle
    /\ InitGuiIdle

Init == InitSanIdle /\ InitStore /\ InitCfg /\ InitQAIdle /\ InitExtIdle

\* connect_to_db, database.py:30-47
Connect ==
    /\ ~connOpen
    /\ connOpen' = TRUE
    /\ view' = disk
    /\ last' = Op("connect", <<>>, <<>>, TRUE, -1, <<>>)
    /\ reidx' = NoReidx
    /\ UNCHANGED <<disk, failOn, found, sanVars, extVars, cfgVars, qaVars>>

\* conn.close(): changes that were not committed are rolled back
Close ==
    /\ connOpen
    /\ connOpen' = FALSE
    /\ view' = disk
    /\ last' = Op("close", <<>>, <<>>, TRUE, -1, <<>>)
    /\ reidx' = NoReidx
    /\ UNCHANGED <<disk, failOn, found, sanVars, extVars, cfgVars, qaVars>>

\* the embedding service starts or stops failing on a text
SetEmbeddingService(c) ==
    /\ c # failOn
    /\ failOn' = c
    /\ last' = Op("service", <<>>, c, TRUE, -1, <<>>)
    /\ reidx' = NoReidx
    /\ UNCHANGED <<disk, view, connOpen, found, sanVars, extVars, cfgVars, qaVars>>

SaveDocument(name, content) ==
    /\ connOpen
    /\ LET r == save_document(ConnState, content, name)
       IN  /\ disk' = r.st.disk
           /\ view' = r.st.view
           /\ last' = Op("save", name, content, r.ret, r.count, <<>>)
           /\ reidx' =
                IF ~r.ret THEN NoReidx
                ELSE IF reidx.stage = 2 /\ reidx.name = name /\ reidx.content = content
                THEN [reidx EXCEPT !.stage = 3]
                ELSE [stage |-> 1, name |-> name, content |-> content,
                      rows |-> <<>>, ret |-> FALSE]
    /\ UNCHANGED <<connOpen, failOn, found, sanVars, extVars, cfgVars, qaVars>>

GenerateAndSaveEmbeddings ==
    /\ connOpen
    /\ LET r == generate_and_save_embeddings(ConnState, failOn)
       IN  /\ disk' = r.st.disk
           /\ view' = r.st.view
           /\ last' = Op("generate", <<>>, <<>>, r.ret, -1, r.log)
           /\ reidx' =
                IF reidx.stage = 1
                THEN [reidx EXCEPT !.stage = 2, !.ret = r.ret,
                        !.rows = r.st.view.rows[sanitise_table_name(reidx.name)]]
                ELSE IF reidx.stage = 3
                THEN [reidx EXCEPT !.stage = 4]
                ELSE NoReidx
    /\ UNCHANGED <<connOpen, failOn, found, sanVars, extVars, cfgVars, qaVars>>

Next ==
    \/ Connect
    \/ Close
    \/ \E c \in AllChunks \cup {NoChunk} : SetEmbeddingService(c)
    \/ \E name \in DocNames, content \in Texts \cup {NoFile} : SaveDocument(name, content)
    \/ GenerateAndSaveEmbeddings

Spec == Init /\ [][Next]_vars

----------------------------------------------------------------------------
(* The sanitiser applied to every name of up to MaxNameLen characters *)

InitSan ==
    /\ sanIn = <<>>
    /\ sanOut = sanitise_table_name(<<>>)
    /\ InitStore
    /\ InitCfg
    /\ InitQAIdle
    /\ InitExtIdle

\* sanitise_table_name applied to the name extended by one character
SanitiseName(c) ==
    /\ Len(sanIn) < MaxNameLen
    /\ sanIn' = Append(sanIn, c)
    /\ sanOut' = sanitise_table_name(sanIn')
    /\ UNCHANGED <<storeVars, cfgVars, qaVars, extVars>>

NextSan == \E c \in NameChars : SanitiseName(c)

SpecSan == InitSan /\ [][NextSan]_vars

----------------------------------------------------------------------------
(* process_all_documents, database.py:251-282 *)

RECURSIVE SaveEach(_, _)
\* for file_path, table_name in document_files: save_document(...) (lines 270-271)
SaveEach(st, files) ==
    IF files = <<>> THEN st
    ELSE SaveEach(save_document(st, Head(files).content, Head(files).name).st, Tail(files))

\* try: body / except Exception: return on_error (database.py:280-282,
\* qa.py:164-167).  A body is a record with the field raised.
ExceptNothing(body, on_error) == body
ExceptException(body, on_error) == IF body.raised THEN on_error ELSE body

\* conn.close() (line 277): what was not committed is rolled back, and the
\* database holds the committed rows
CloseCommits(st) == st.view
CloseConnection(st) == st.disk

\* the body of the try block, lines 259-279; stage: the step that failed;
\* log: the INSERTs of the embedding pass
PassResult(raised, stage, ret, db, log) ==
    [raised |-> raised, stage |-> stage, ret |-> ret, disk |-> db, log |-> log]

\* success = generate_and_save_embeddings(conn); conn.close(); return success
PassOf(gen) ==
    PassResult(FALSE, IF gen.ret THEN "none" ELSE "generate",
               gen.ret, CloseConnection(gen.st), gen.log)

\* conn = connect_to_db() (line 260): the connection sees the rows of the
\* database file
connect_to_new_db(db) == [disk |-> EmptyDB, view |-> EmptyDB]
connect_to_db(db) == [disk |-> db, view |-> db]

ProcessBody(db, files, fail) ==
    IF ~dbOk THEN PassResult(TRUE, "connect", FALSE, db, <<>>)   \* connect_to_db raises
    ELSE IF files = <<>> THEN PassResult(FALSE, "files", FALSE, db, <<>>)
    ELSE PassOf(generate_and_save_embeddings(
                    SaveEach(connect_to_db(db), files), fail))

\* except Exception: return False
PassCaught(body) == ExceptException(body, [body EXCEPT !.raised = FALSE, !.ret = FALSE])

\* files: the (name, content) pairs found by get_document_files, in glob order
process_all_documents(db, files, fail) == PassCaught(ProcessBody(db, files, fail))

----------------------------------------------------------------------------
(* cosine_similarity, similarity_search.py:126-152 *)

Dot(v1, v2) == IF Len(v1) = 2 THEN v1[1] * v2[1] + v1[2] * v2[2] ELSE 0
NormSq(v) == Dot(v, v)

\* A similarity is the real number num / sqrt(den2); it is never rounded.
Similarity(num, den2) == [num |-> num, den2 |-> den2]

cosine_similarity_unguarded(vec1, vec2) ==
    Similarity(Dot(vec1, vec2), NormSq(vec1) * NormSq(vec2))
cosine_similarity(vec1, vec2) ==
    IF NormSq(vec1) = 0 \/ NormSq(vec2) = 0
    THEN Similarity(0, 1)                                     \* return 0.0
    ELSE Similarity(Dot(vec1, vec2), NormSq(vec1) * NormSq(vec2))

\* a <= b as real numbers
SimLeq(a, b) ==
    IF a.num <= 0 /\ b.num >= 0 THEN TRUE
    ELSE IF a.num > 0 /\ b.num < 0 THEN FALSE
    ELSE IF a.num >= 0
         THEN a.num * a.num * b.den2 <= b.num * b.num * a.den2
         ELSE a.num * a.num * b.den2 >= b.num * b.num * a.den2

SimEq(a, b) == SimLeq(a, b) /\ SimLeq(b, a)
SimLess(a, b) == ~SimLeq(b, a)

----------------------------------------------------------------------------
(* cosine_similarity applied to every pair of small vectors *)

MaxComponent == 2
CosValues == -1..MaxComponent
CosVectors == {<<x, y>> : x \in CosValues, y \in CosValues}

\* the two calls cosine_similarity(a, b) and cosine_similarity(b, a)
CosinePair(a, b) ==
    [forward |-> cosine_similarity(a, b), backward |-> cosine_similarity(b, a)]

InitCos ==
    /\ InitSanIdle
    /\ InitStore
    /\ InitCfg
    /\ InitQAIdle
    /\ cosA = <<0, 0>>
    /\ cosB = <<0, 0>>
    /\ cosOut = CosinePair(cosA, cosB)
    /\ InitPassIdle
    /\ InitGuiIdle

CosineSimilarity(a, b) ==
    /\ cosA' = a
    /\ cosB' = b
    /\ cosOut' = CosinePair(a, b)
    /\ UNCHANGED <<sanVars, storeVars, cfgVars, qaVars, passVars, guiVars>>

NextCos == \E a \in CosVectors, b \in CosVectors : CosineSimilarity(a, b)

SpecCos == InitCos /\ [][NextCos]_vars

----------------------------------------------------------------------------
(* query_similarity, similarity_search.py:39-123 *)

\* query texts: embedded as (1,0), (1,1) and the zero vector
Queries == { <<"a">>, <<"a", "b">>, <<"z">> }

\* get_tables, similarity_search.py:23-36
get_tables(db) == db.order

\* if not chunk_text or not embedding_bytes: continue (lines 91-92)
Scannable(r) == Truthy(r.chunk_text) /\ Truthy(r.embeddings)

\* One element of all_results (line 102).  at = <<table index, row index>> is
\* the place of the row in the scan; the program does not keep it.
Hit(similarity, text, table, at) ==
    [similarity |-> similarity, page_content |-> text, source |-> table, at |-> at]

\* the rows loop of one table (lines 87-102)
ScanRows(db, query_embedding, tables, ti) ==
    LET table == tables[ti]
        rows  == IF TableExists(db, table) THEN db.rows[table] ELSE <<>>
        hits  == [ri \in 1..Len(rows) |->
                    IF Scannable(rows[ri])
                    THEN <<Hit(cosine_similarity(query_embedding,
                                                 stored_embedding(rows[ri].embeddings)),
                               rows[ri].chunk_text, table, <<ti, ri>>)>>
                    ELSE <<>>]
    IN  Concat(hits)

\* all_results after the tables loop (lines 77-102)
ScanTables(db, query_embedding, tables) ==
    Concat([ti \in 1..Len(tables) |-> ScanRows(db, query_embedding, tables, ti)])

\* where list.sort(reverse=True) leaves x among the already sorted elements:
\* behind every element that is not smaller
InsertDescTiesFirst(sorted, x) ==
    SelectSeq(sorted, LAMBDA e : SimLess(x.similarity, e.similarity)) \o <<x>> \o
    SelectSeq(sorted, LAMBDA e : SimLeq(e.similarity, x.similarity))
InsertDesc(sorted, x) ==
    SelectSeq(sorted, LAMBDA e : SimLeq(x.similarity, e.similarity)) \o <<x>> \o
    SelectSeq(sorted, LAMBDA e : SimLess(e.similarity, x.similarity))

RECURSIVE SortDesc(_)
\* all_results.sort(reverse=True, key=lambda x: x[0]) (line 105)
SortDesc(all_results) ==
    IF all_results = <<>> THEN <<>>
    ELSE InsertDesc(SortDesc(SubSeq(all_results, 1, Len(all_results) - 1)),
                    all_results[Len(all_results)])

\* all_results[:top_k] (line 108)
SliceOneMore(all_results, top_k) ==
    SubSeq(all_results, 1, Min(top_k + 1, Len(all_results)))
Slice(all_results, top_k) ==
    IF top_k >= 0 THEN SubSeq(all_results, 1, Min(top_k, Len(all_results)))
    ELSE SubSeq(all_results, 1, Len(all_results) + top_k)

\* tables searched (lines 68-72): None and "" both mean every table
SearchTables(db, table_name) ==
    IF Truthy(table_name) THEN <<sanitise_table_name(table_name)>> ELSE get_tables(db)

\* raised: the call ended in an exception; docs: the list returned;
\* connected: connect_to_db was reached and opened the database
SearchRaised(connected) == [raised |-> TRUE, docs |-> <<>>, connected |-> connected]
SearchReturned(docs) == [raised |-> FALSE, docs |-> docs, connected |-> TRUE]

query_similarity(embeddings_model, db, fail, query, top_k, table_name) ==
    IF embeddings_model = NULL THEN SearchRaised(FALSE)       \* raise ValueError (line 60)
    ELSE IF query = fail THEN SearchRaised(FALSE)             \* embed_query raises
    ELSE IF ~dbOk THEN SearchRaised(FALSE)                    \* connect_to_db raises
    ELSE
    LET query_embedding == embed_query(query)
        tables == SearchTables(db, table_name)
    IN  IF <<>> \in Range(tables)
        THEN SearchRaised(TRUE)                               \* PRAGMA table_info(): syntax error
        ELSE SearchReturned(Slice(SortDesc(ScanTables(db, query_embedding, tables)), top_k))

\* SQLiteVectorStore.__init__ (similarity_search.py:170):
\* self.embeddings_model = embeddings_model or embeddings
StoreModelOrDefault(embeddings_model) ==
    IF embeddings_model # NULL THEN embeddings_model ELSE Model
StoreModel(embeddings_model) ==
    IF embeddings_model # NULL THEN embeddings_model ELSE embeddings

\* SQLiteVectorStore.similarity_search (similarity_search.py:173-192) of a
\* store made with the given embeddings_model
similarity_search(embeddings_model, db, fail, query, k, table_name) ==
    query_similarity(StoreModel(embeddings_model), db, fail, query, k, table_name)

----------------------------------------------------------------------------
(* Searches over the stores an ingest pass leaves *)

FileEntries == [name : DocNames, content : Texts \cup {NoFile}]

\* the documents directory holds at most two files
FileLists == {<<>>} \cup {<<f>> : f \in FileEntries}
                \cup {<<f, g>> : f \in FileEntries, g \in FileEntries}

InitSearch ==
    /\ InitSanIdle
    /\ InitCfg
    /\ InitQAIdle
    /\ InitExtIdle
    /\ failOn \in AllChunks \cup {NoChunk}
    /\ \E files \in FileLists : disk = process_all_documents(EmptyDB, files, failOn).disk
    /\ view = disk
    /\ connOpen = FALSE
    /\ last = Op("init", <<>>, <<>>, TRUE, -1, <<>>)
    /\ reidx = NoReidx
    /\ found = <<>>

\* what a search call was given and did: the path taken, the
\* embeddings_model argument, and whether it opened the database
SearchNote(via, given, connected) ==
    <<[via |-> via, given |-> given, connected |-> connected]>>

\* query_similarity on a connection of its own: it reads the committed rows
SearchDone(r, via, embeddings_model, query, top_k, table_name) ==
    /\ found' = r.docs
    /\ last' = Op("query", table_name, query, ~r.raised, top_k,
                  SearchNote(via, embeddings_model, r.connected))

QuerySimilarity(embeddings_model, query, top_k, table_name) ==
    /\ SearchDone(query_similarity(embeddings_model, disk, failOn, query, top_k, table_name),
                  "direct", embeddings_model, query, top_k, table_name)
    /\ UNCHANGED <<disk, view, connOpen, failOn, reidx, sanVars, extVars, cfgVars, qaVars>>

\* similarity_search of a SQLiteVectorStore made with embeddings_model
SimilaritySearch(embeddings_model, query, k, table_name) ==
    /\ SearchDone(similarity_search(embeddings_model, disk, failOn, query, k, table_name),
                  "store", embeddings_model, query, k, table_name)
    /\ UNCHANGED <<disk, view, connOpen, failOn, reidx, sanVars, extVars, cfgVars, qaVars>>

\* the caller leaves embeddings_model to its default, the module global
NextSearch ==
    \E query \in Queries, top_k \in -1..MaxK, table_name \in DocNames \cup {NULL, <<>>} :
        QuerySimilarity(embeddings, query, top_k, table_name)

SpecSearch == InitSearch /\ [][NextSearch]_vars

----------------------------------------------------------------------------
(* Searches with and without an embedding model *)

\* a process whose embeddings object is set or is None, over the store its
\* ingest pass of one file left (with None the pass fails, database.py:219)
InitModel ==
    /\ InitSanIdle
    /\ InitQAIdle
    /\ InitExtIdle
    /\ embeddings \in {Model, NULL}
    /\ dbOk = TRUE
    /\ failOn \in AllChunks \cup {NoChunk}
    /\ \E f \in FileEntries : disk = process_all_documents(EmptyDB, <<f>>, failOn).disk
    /\ view = disk
    /\ connOpen = FALSE
    /\ last = Op("init", <<>>, <<>>, TRUE, -1, <<>>)
    /\ reidx = NoReidx
    /\ found = <<>>

NextModel ==
    \E embeddings_model \in {Model, NULL}, query \in Queries, table_name \in {NULL, <<"a">>} :
        \/ QuerySimilarity(embeddings_model, query, MaxK, table_name)
        \/ SimilaritySearch(embeddings_model, query, MaxK, table_name)

SpecModel == InitModel /\ [][NextModel]_vars

----------------------------------------------------------------------------
(* QAChain, qa.py *)

\* k: int = 3 (qa.py:188)
DefaultK == 3

Questions == {<<"a">>, <<"z">>}
Answers == {<<"x">>}

\* HumanMessage(content=message) / AIMessage(content=message), lines 138-141
MessageAlwaysHuman(message, is_human) == [role |-> "human", content |-> message]
MessageFor(message, is_human) ==
    [role |-> IF is_human THEN "human" ELSE "ai", content |-> message]

\* self.chat_history.append(...): the list object is changed in place, so
\* the list made by __init__ changes with it as long as it is the same object
add_message_front(ch, message, is_human) ==
    [ch EXCEPT !.current = <<MessageFor(message, is_human)>> \o ch.current]
add_message(ch, message, is_human) ==
    LET m == MessageFor(message, is_human)
    IN  [current |-> Append(ch.current, m),
         initial |-> IF ch.same THEN Append(ch.initial, m) ELSE ch.initial,
         same    |-> ch.same]

\* self.chat_history = [] (line 171): a new list is bound to the attribute
reset_chat_history_keep(ch) == ch
reset_chat_history(ch) == [current |-> <<>>, initial |-> ch.initial, same |-> FALSE]

\* "chat_history": lambda _: self.chat_history (line 90) reads the attribute
\* when the chain is invoked
PromptHistoryOfInit(ch) == ch.initial
PromptHistory(ch) == ch.current

NothingFound == <<"No relevant information found in the knowledge base.">>

\* formatted_docs (lines 118-124): one entry per document, numbered from 1
FormatDocs(docs) ==
    [i \in 1..Len(docs) |->
        [document |-> i, source |-> docs[i].source, relevance |-> docs[i].similarity,
         content |-> Strip(docs[i].page_content)]]

\* if not docs: return the message; else "\n".join(formatted_docs)
ContextJoined(docs) == FormatDocs(docs)
ContextFor(docs) == IF docs = <<>> THEN NothingFound ELSE FormatDocs(docs)

\* retrieve_and_format (lines 110-126) over the vector store of the chain,
\* made by create_vector_store() with the default embeddings_model
Retrieved(r) == [raised |-> r.raised, docs |-> r.docs, context |-> ContextFor(r.docs)]

retrieve_and_format(db, fail, query) ==
    Retrieved(similarity_search(embeddings, db, fail, query, DefaultK, NULL))

Request(context, history, question) ==
    [made |-> TRUE, context |-> context, history |-> history, question |-> question]

ErrorPrefix == <<"Sorry, an error occurred: Error processing query: ">>
AnswerReply(answer) == [kind |-> "answer", text |-> answer]
ErrorReply(stage) == [kind |-> "error", text |-> ErrorPrefix \o <<stage>>]

\* what query has appended to the history when it invokes the chain: nothing
BeforeInvokeHumanFirst(ch, question) == add_message(ch, question, TRUE)
BeforeInvoke(ch, question) == ch

\* stage: the step an exception came from; reply: the value returned
QueryResult(raised, stage, ch, request, rep, docs) ==
    [raised |-> raised, stage |-> stage, chain |-> ch, sent |-> request,
     reply |-> rep, docs |-> docs]

\* the chain invoked on the context ctx and the history of pre, then the
\* two add_message calls (lines 157-163)
InvokeChain(ch, pre, ctx, request, answer) ==
    IF ctx.raised
    THEN QueryResult(TRUE, "retrieval", pre, NoRequest, NoReply, <<>>)
    ELSE IF ~llmOk
    THEN QueryResult(TRUE, "completion", pre, request, NoReply, ctx.docs)
    ELSE QueryResult(FALSE, "none",
                     add_message(add_message(ch, request.question, TRUE), answer, FALSE),
                     request, AnswerReply(answer), ctx.docs)

InvokeOn(ch, pre, ctx, question, answer) ==
    InvokeChain(ch, pre, ctx, Request(ctx.context, PromptHistory(pre), question), answer)

\* the body of the try block of query (lines 153-163); answer is what the
\* completion service returns when it is up
QueryBody(ch, db, fail, question, answer) ==
    InvokeOn(ch, BeforeInvoke(ch, question), retrieve_and_format(db, fail, question),
             question, answer)

\* except Exception as e: return the error text (lines 164-167)
QueryCaught(body) ==
    ExceptException(body, [body EXCEPT !.raised = FALSE, !.reply = ErrorReply(body.stage)])

\* QAChain.query, lines 143-167
query(ch, db, fail, question, answer) == QueryCaught(QueryBody(ch, db, fail, question, answer))

----------------------------------------------------------------------------
(* Ingest passes over a documents directory *)

\* the database file becomes unreadable or readable again
SetStorage(ok) ==
    /\ ok # dbOk
    /\ dbOk' = ok
    /\ last' = Op("storage", <<>>, <<>>, ok, -1, <<>>)
    /\ reidx' = NoReidx
    /\ UNCHANGED <<disk, view, connOpen, failOn, found, embeddings, sanVars, extVars, qaVars>>

\* what an ingest pass did: an exception that reaches the caller is noted in
\* the name of the operation, the files it found in name, the step that
\* failed in content
PassOp(r, files) ==
    Op(IF r.raised THEN "ingest raised" ELSE "ingest", files, <<r.stage>>, r.ret,
       Len(files), r.log)

\* process_all_documents over the files the directory holds at the time
PassDone(r, files) ==
    /\ disk' = r.disk
    /\ view' = r.disk
    /\ last' = PassOp(r, files)

ProcessAllDocuments(files) ==
    /\ PassDone(process_all_documents(disk, files, failOn), files)
    /\ reidx' = NoReidx
    /\ UNCHANGED <<connOpen, failOn, found, sanVars, extVars, cfgVars, qaVars>>

\* b and B name the same collection; a file may be unreadable
IngestNames == {<<"a">>, <<"B">>, <<"b">>}
IngestTexts == {<<"a">>, <<"a", "b">>}
IngestFiles == [name : IngestNames, content : IngestTexts \cup {NoFile}]
IngestLists == {<<>>} \cup {<<f>> : f \in IngestFiles}
                  \cup {<<f, g>> : f \in IngestFiles, g \in IngestFiles}

InitIngest == InitSanIdle /\ InitStore /\ InitCfg /\ InitQAIdle /\ InitExtIdle

NextIngest ==
    \/ \E files \in IngestLists : ProcessAllDocuments(files)
    \/ \E c \in {<<"a">>, <<"b">>, NoChunk} : SetEmbeddingService(c)
    \/ \E ok \in BOOLEAN : SetStorage(ok)

SpecIngest == InitIngest /\ [][NextIngest]_vars

----------------------------------------------------------------------------
(* A session of the application: gui.py, cli.py *)

MaxTurns == 2

\* process_query (gui.py:297-326), cli.py:69: QAChain.query(question)
QueryDone(r, question, answer) ==
    /\ chain' = r.chain
    /\ sent' = r.sent
    /\ reply' = r.reply
    /\ found' = r.docs
    /\ since' = IF r.reply.kind = "answer"
                THEN since \o <<[role |-> "human", content |-> question],
                                [role |-> "ai", content |-> answer]>>
                ELSE since
    /\ qaLast' = QaOp("query", question, chain.current, r.raised, r.stage)

Query(question, answer) ==
    /\ Len(chain.current) < 2 * MaxTurns
    /\ QueryDone(query(chain, disk, failOn, question, answer), question, answer)
    /\ UNCHANGED <<disk, view, connOpen, failOn, last, reidx, llmOk, sanVars, extVars, cfgVars>>

\* reset_conversation (gui.py:439-456), cli.py:60
ResetConversation ==
    /\ chain' = reset_chat_history(chain)
    /\ since' = <<>>
    /\ qaLast' = QaOp("reset", <<>>, chain.current, FALSE, "none")
    /\ UNCHANGED <<sent, reply, llmOk, storeVars, sanVars, extVars, cfgVars>>

\* _reindex_documents (gui.py:406-437): on success the chain is made anew
ReindexDone(r, files) ==
    /\ PassDone(r, files)
    /\ chain' = IF ~r.raised /\ r.ret THEN NewChain ELSE chain
    /\ since' = IF ~r.raised /\ r.ret THEN <<>> ELSE since
    /\ qaLast' = QaOp("reindex", <<>>, chain.current, r.raised, "none")

ReindexDocuments(files) ==
    /\ ReindexDone(process_all_documents(disk, files, failOn), files)
    /\ reidx' = NoReidx
    /\ UNCHANGED <<connOpen, failOn, found, sent, reply, llmOk, sanVars, extVars, cfgVars>>

\* add_document (gui.py:368-396): the file is copied into the directory,
\* which then holds files; a pass follows when the user asks for it
AddDocument(files, reindexNow) ==
    /\ files # <<>>
    /\ IF reindexNow
       THEN ReindexDocuments(files)
       ELSE /\ qaLast' = QaOp("add", <<>>, chain.current, FALSE, "none")
            /\ UNCHANGED <<chain, since, sent, reply, llmOk, storeVars, sanVars, extVars, cfgVars>>

\* the completion service goes down or comes back
SetCompletionService(ok) ==
    /\ ok # llmOk
    /\ llmOk' = ok
    /\ UNCHANGED <<chain, sent, reply, since, qaLast, storeVars, sanVars, extVars, cfgVars>>

AppFiles == [name : {<<"a">>}, content : {<<"a">>}]
AppLists == {<<>>} \cup {<<f>> : f \in AppFiles}

InitApp == InitSanIdle /\ InitStore /\ InitCfg /\ InitQAIdle /\ InitExtIdle

NextApp ==
    \/ \E question \in Questions, answer \in Answers : Query(question, answer)
    \/ ResetConversation
    \/ \E files \in AppLists : ReindexDocuments(files)
    \/ \E files \in AppLists, reindexNow \in BOOLEAN : AddDocument(files, reindexNow)
    \/ \E c \in {<<"a">>, NoChunk} : SetEmbeddingService(c)
    \/ \E ok \in BOOLEAN : SetStorage(ok)
    \/ \E ok \in BOOLEAN : SetCompletionService(ok)

SpecApp == InitApp /\ [][NextApp]_vars

----------------------------------------------------------------------------
(* An ingest pass, statement by statement, and a search beside it *)

\* top_k: int = 5 (similarity_search.py:42)
DefaultTopK == 5

\* two versions of a document: the chunks of one are those of the other in
\* reverse order
PassTexts == {<<"a", "b">>, <<"b", "a">>}
PassEntries == [name : {<<"a">>, <<"B">>}, content : PassTexts \cup {NoFile}]
\* the directory holds no file, a.txt, B.txt or both, glob order
PassLists == {<<>>} \cup {<<f>> : f \in PassEntries}
                \cup {<<f, g>> : f \in [name : {<<"a">>}, content : PassTexts],
                                g \in [name : {<<"B">>}, content : PassTexts]}

PassAt(pc, files, tables) ==
    [pc |-> pc, files |-> files, tables |-> tables, ret |-> FALSE, exit |-> "none"]
PassReturnedBy(ret, exit) ==
    [pc |-> "returned", files |-> <<>>, tables |-> <<>>, ret |-> ret, exit |-> exit]

\* conn = connect_to_db() (database.py:260); an exception is caught at line
\* 280 and False returned
PassConnect ==
    /\ pass.pc \in {"idle", "returned"}
    /\ IF ~dbOk
       THEN /\ pass' = PassReturnedBy(FALSE, "connect")
            /\ connOpen' = FALSE
            /\ view' = disk
       ELSE /\ pass' = PassAt("files", <<>>, <<>>)
            /\ connOpen' = TRUE
            /\ view' = connect_to_db(disk).view
    /\ UNCHANGED <<disk, failOn, last, reidx, found, scan, sanVars, cosVars, guiVars, cfgVars, qaVars>>

\* document_files = get_document_files(); if not document_files: return False
\* (lines 262-267).  The return leaves conn unclosed; whether the connection
\* is closed when the function has returned is up to the garbage collector.
PassDiscover(files, collected) ==
    /\ pass.pc = "files"
    /\ IF files = <<>>
       THEN /\ pass' = PassReturnedBy(FALSE, "files")
            /\ connOpen' = ~collected
       ELSE /\ collected
            /\ pass' = PassAt("open", files, <<>>)
            /\ connOpen' = connOpen
    /\ UNCHANGED <<disk, view, failOn, last, reidx, found, scan, sanVars, cosVars, guiVars, cfgVars,
                   qaVars>>

\* after the save of Head(pass.files): the next file, or the start of
\* generate_and_save_embeddings with its list of tables (lines 204-205)
AfterSave(st) ==
    IF Tail(pass.files) # <<>>
    THEN PassAt("open", Tail(pass.files), <<>>)
    ELSE IF st.view.order = <<>> THEN PassAt("close", <<>>, <<>>)
    ELSE PassAt("generate", <<>>, st.view.order)

PassTable == sanitise_table_name(Head(pass.files).name)

\* save_document up to create_table_for_document (lines 153-160)
SaveOpen ==
    /\ pass.pc = "open"
    /\ IF Head(pass.files).content = NoFile
       THEN /\ pass' = AfterSave(ConnState)
            /\ UNCHANGED <<disk, view>>
       ELSE LET created == create_table_for_document(ConnState, PassTable)
            IN  /\ disk' = created.st.disk
                /\ view' = created.st.view
                /\ pass' = IF created.raised THEN AfterSave(created.st)
                           ELSE [pass EXCEPT !.pc = "clear"]
    /\ UNCHANGED <<connOpen, failOn, last, reidx, found, scan, sanVars, cosVars, guiVars, cfgVars,
                   qaVars>>

\* the COUNT and the DELETE with its commit (lines 163-170)
SaveClear ==
    /\ pass.pc = "clear"
    /\ LET st == IF NeedsClear(Len(view.rows[PassTable]))
                 THEN Commit(SetRows(ConnState, PassTable, ClearTable(view.rows[PassTable])))
                 ELSE ConnState
       IN  /\ disk' = st.disk
           /\ view' = st.view
    /\ pass' = [pass EXCEPT !.pc = "insert"]
    /\ UNCHANGED <<connOpen, failOn, last, reidx, found, scan, sanVars, cosVars, guiVars, cfgVars,
                   qaVars>>

\* the INSERT of the placeholder with its commit (lines 173-175)
SaveInsert ==
    /\ pass.pc = "insert"
    /\ LET rows == view.rows[PassTable]
           st == Commit(SetRows(ConnState, PassTable,
                                InsertRow(rows, PlaceholderRow(rows, Head(pass.files).content))))
       IN  /\ disk' = st.disk
           /\ view' = st.view
           /\ pass' = AfterSave(st)
    /\ UNCHANGED <<connOpen, failOn, last, reidx, found, scan, sanVars, cosVars, guiVars, cfgVars,
                   qaVars>>

\* where generate_and_save_embeddings is after the rows of a table
AfterTable(done) ==
    IF done.raised THEN [PassAt("close", <<>>, <<>>) EXCEPT !.ret = FALSE]
    ELSE IF Tail(pass.tables) = <<>> THEN [PassAt("close", <<>>, <<>>) EXCEPT !.ret = TRUE]
    ELSE PassAt("generate", <<>>, Tail(pass.tables))

GenerateDone(done) ==
    /\ disk' = done.st.disk
    /\ view' = done.st.view
    /\ pass' = AfterTable(done)

\* one round of the loop over tables (lines 207-241): the rows of a document
\* are committed together with the DELETE of its placeholder
GenerateTable ==
    /\ pass.pc = "generate"
    /\ GenerateDone(EmbedDocs(ConnState, failOn, Head(pass.tables),
                              Unembedded(view.rows[Head(pass.tables)]), <<>>))
    /\ UNCHANGED <<connOpen, failOn, last, reidx, found, scan, sanVars, cosVars, guiVars, cfgVars,
                   qaVars>>

\* conn.close(); return success (lines 277-279)
PassClose ==
    /\ pass.pc = "close"
    /\ connOpen' = FALSE
    /\ view' = CloseConnection(ConnState)
    /\ pass' = PassReturnedBy(pass.ret, IF pass.ret THEN "normal" ELSE "failure")
    /\ UNCHANGED <<disk, failOn, last, reidx, found, scan, sanVars, cosVars, guiVars, cfgVars, qaVars>>

ScanAt(pc, open, text, tables, ti, results, exit) ==
    [pc |-> pc, open |-> open, query |-> text, tables |-> tables, ti |-> ti,
     results |-> results, exit |-> exit]

\* query_similarity up to the list of tables (similarity_search.py:59-72)
ScanStart(text, table_name) ==
    /\ scan.pc \in {"idle", "returned"}
    /\ scan' =
         IF embeddings = NULL \/ text = failOn \/ ~dbOk
         THEN ScanAt("returned", FALSE, text, <<>>, 0, <<>>, "failure")
         ELSE ScanAt("scan", TRUE, text, SearchTables(disk, table_name), 1, <<>>, "none")
    /\ UNCHANGED <<storeVars, pass, sanVars, cosVars, guiVars, cfgVars, qaVars>>

\* what a SELECT on the connection of the search reads while writer is the
\* view of the connection of the pass: the committed rows
CommittedOrPending(db, writer) == writer
Committed(db, writer) == db

\* one round of the loop over tables (lines 77-102), or the way out of it
ScanTable ==
    /\ scan.pc = "scan"
    /\ scan' =
         IF scan.ti > Len(scan.tables)
         THEN [scan EXCEPT !.pc = "finally", !.exit = "normal"]
         ELSE IF scan.tables[scan.ti] = <<>>        \* PRAGMA table_info(): syntax error
         THEN [scan EXCEPT !.pc = "finally", !.results = <<>>, !.exit = "failure"]
         ELSE [scan EXCEPT !.ti = @ + 1,
                           !.results = @ \o ScanRows(Committed(disk, view),
                                                     embed_query(scan.query),
                                                     scan.tables, scan.ti)]
    /\ UNCHANGED <<storeVars, pass, sanVars, cosVars, guiVars, cfgVars, qaVars>>

\* the sort and the slice (lines 105-108) when the loop ended, then
\* finally: conn.close() (lines 121-123); results becomes the list returned
ScanClose ==
    /\ scan.pc = "finally"
    /\ scan' = [scan EXCEPT !.pc = "returned", !.open = FALSE, !.tables = <<>>, !.ti = 0,
                            !.results = Slice(SortDesc(@), DefaultTopK)]
    /\ UNCHANGED <<storeVars, pass, sanVars, cosVars, guiVars, cfgVars, qaVars>>

InitPass == InitSanIdle /\ InitStore /\ InitCfg /\ InitQAIdle /\ InitExtIdle

NextPass ==
    \/ PassConnect
    \/ \E files \in PassLists, collected \in BOOLEAN : PassDiscover(files, collected)
    \/ SaveOpen
    \/ SaveClear
    \/ SaveInsert
    \/ GenerateTable
    \/ PassClose
    \/ \E table_name \in {NULL, <<"-">>} : ScanStart(<<"a">>, table_name)
    \/ ScanTable
    \/ ScanClose
    \/ \E c \in {<<"b">>, NoChunk} : SetEmbeddingService(c)
    \/ \E ok \in BOOLEAN : SetStorage(ok)

SpecPass == InitPass /\ [][NextPass]_vars

----------------------------------------------------------------------------
(* The window of the application, gui.py *)

MaxWorkers == 2

\* a worker thread; pc is "running" until its call has returned and its
\* callbacks are scheduled with root.after, then "done" until they have run
Worker(kind, question) == [kind |-> kind, question |-> question, pc |-> "running"]

\* toggle_ui(enabled), gui.py:359-366: the state of the three buttons, the
\* send button and the entry
toggle_ui(g, enabled) == [g EXCEPT !.enabled = enabled]

\* question_entry.delete(0, "end") (line 283): a disabled entry keeps its text
EntryDelete(g) == [g EXCEPT !.entry = IF g.enabled THEN <<>> ELSE @]

StartThread(g, w) == [g EXCEPT !.workers = Append(@, w)]

\* on_send_click, gui.py:269-295
on_send_click(g) ==
    IF Strip(g.entry) = <<>> THEN g
    ELSE StartThread(toggle_ui(EntryDelete(g), FALSE), Worker("query", Strip(g.entry)))

\* reindex_documents, gui.py:398-404
reindex_documents(g) == StartThread(toggle_ui(g, FALSE), Worker("reindex", <<>>))

RemoveAt(seq, i) == SubSeq(seq, 1, i - 1) \o SubSeq(seq, i + 1, Len(seq))

GuiFrame == UNCHANGED <<sanVars, storeVars, cfgVars, qaVars, cosVars, passVars>>

\* the user clicks into the enabled entry and types a question
TypeQuestion(text) ==
    /\ gui.enabled
    /\ gui' = [gui EXCEPT !.entry = text, !.focus = TRUE]
    /\ GuiFrame

\* the user clicks on the chat display: the entry loses the focus
FocusAway ==
    /\ gui.focus
    /\ gui' = [gui EXCEPT !.focus = FALSE]
    /\ GuiFrame

\* command=self.on_send_click of the send button (line 213)
ClickSend ==
    /\ gui.enabled
    /\ Len(gui.workers) < MaxWorkers
    /\ gui' = on_send_click(gui)
    /\ GuiFrame

\* question_entry.bind("<Return>", self.on_send_click) (line 207): the
\* binding runs when the entry has the focus, whatever its state
PressReturn ==
    /\ gui.focus
    /\ Len(gui.workers) < MaxWorkers
    /\ gui' = on_send_click(gui)
    /\ GuiFrame

\* command=self.reindex_documents (line 142)
ClickReindex ==
    /\ gui.enabled
    /\ Len(gui.workers) < MaxWorkers
    /\ gui' = reindex_documents(gui)
    /\ GuiFrame

\* command=self.add_document (line 132): the file is copied, and a reindex
\* starts when the user says so (lines 391-392)
ClickAddDocument(reindexNow) ==
    /\ gui.enabled
    /\ Len(gui.workers) < MaxWorkers
    /\ gui' = IF reindexNow THEN reindex_documents(gui) ELSE gui
    /\ qaLast' = QaOp("add", <<>>, chain.current, FALSE, "none")
    /\ UNCHANGED <<chain, since, sent, reply, llmOk, storeVars, sanVars, cfgVars, cosVars,
                   passVars>>

\* command=self.reset_conversation (line 152), gui.py:439-456
ClickReset ==
    /\ gui.enabled
    /\ chain' = reset_chat_history(chain)
    /\ since' = <<>>
    /\ qaLast' = QaOp("reset", <<>>, chain.current, FALSE, "none")
    /\ gui' = [gui EXCEPT !.focus = TRUE]
    /\ UNCHANGED <<sent, reply, llmOk, storeVars, sanVars, cfgVars, cosVars, passVars>>

WorkerDone(i) == gui' = [gui EXCEPT !.workers[i].pc = "done"]

\* process_query (gui.py:297-326) up to its finally block
ProcessQuery(i, answer) ==
    /\ i \in 1..Len(gui.workers)
    /\ gui.workers[i].kind = "query"
    /\ gui.workers[i].pc = "running"
    /\ Len(chain.current) < 2 * MaxTurns
    /\ QueryDone(query(chain, disk, failOn, gui.workers[i].question, answer),
                 gui.workers[i].question, answer)
    /\ WorkerDone(i)
    /\ UNCHANGED <<disk, view, connOpen, failOn, last, reidx, llmOk, sanVars, cfgVars,
                   cosVars, passVars>>

\* _reindex_documents (gui.py:406-437) up to its finally block
ReindexWorker(i, files) ==
    /\ i \in 1..Len(gui.workers)
    /\ gui.workers[i].kind = "reindex"
    /\ gui.workers[i].pc = "running"
    /\ ReindexDone(process_all_documents(disk, files, failOn), files)
    /\ reidx' = NoReidx
    /\ WorkerDone(i)
    /\ UNCHANGED <<connOpen, failOn, found, sent, reply, llmOk, sanVars, cfgVars, cosVars,
                   passVars>>

\* the callbacks a worker scheduled in its finally block (lines 324-326,
\* 435-437): toggle_ui(True) and question_entry.focus_set()
CompletionCallbacks(i) ==
    /\ i \in 1..Len(gui.workers)
    /\ gui.workers[i].pc = "done"
    /\ gui' = [toggle_ui(gui, TRUE) EXCEPT !.focus = TRUE, !.workers = RemoveAt(@, i)]
    /\ GuiFrame

InitGui == InitSanIdle /\ InitStore /\ InitCfg /\ InitQAIdle /\ InitExtIdle

NextGui ==
    \/ \E text \in Questions : TypeQuestion(text)
    \/ FocusAway
    \/ ClickSend
    \/ PressReturn
    \/ ClickReindex
    \/ \E reindexNow \in BOOLEAN : ClickAddDocument(reindexNow)
    \/ ClickReset
    \/ \E i \in 1..MaxWorkers, answer \in Answers : ProcessQuery(i, answer)
    \/ \E i \in 1..MaxWorkers, files \in AppLists : ReindexWorker(i, files)
    \/ \E i \in 1..MaxWorkers : CompletionCallbacks(i)

SpecGui == InitGui /\ [][NextGui]_vars

----------------------------------------------------------------------------
(* Properties of the store *)

AfterGenerate == last.op = "generate"
GenerateSucceeded == last.op = "generate" /\ last.ret
SaveSucceeded == last.op = "save" /\ last.ret

RowsOf(db, t) == db.rows[t]
ChunkTexts(rows) == [i \in 1..Len(rows) |-> rows[i].chunk_text]

\* C1: after generate_and_save_embeddings returns True no collection holds a
\* row with a NULL embedding, whatever the saved text (the empty text
\* included), and the collection of the document just saved holds exactly
\* the chunks of the splitter, one row each, in order.
C1_OnlyFinalRowsAfterSuccess ==
    GenerateSucceeded =>
        /\ \A t \in TableNames : \A i \in 1..Len(RowsOf(view, t)) :
               ~IsPlaceholder(RowsOf(view, t)[i])
        /\ reidx.stage \in {2, 4} =>
               ChunkTexts(RowsOf(view, sanitise_table_name(reidx.name)))
                   = split_text(reidx.content)

\* a placeholder row whose document the embedding service can embed entirely
Embeddable(r) ==
    /\ IsPlaceholder(r)
    /\ Truthy(r.raw_text)
    /\ split_text(r.raw_text) # <<>>
    /\ failOn \notin Range(split_text(r.raw_text))
Unembeddable(r) ==
    IsPlaceholder(r) /\ Truthy(r.raw_text) /\ failOn \in Range(split_text(r.raw_text))

\* C2: when the embedding service fails for the document of one collection
\* and not for the document of another, one generate_and_save_embeddings
\* call materializes the other collection (no placeholder of an embeddable
\* document is left in it), in whatever order the two are processed, and
\* returns False.
C2_FailureIsolatedPerCollection ==
    (AfterGenerate /\ \E a \in TableNames : \E i \in 1..Len(RowsOf(view, a)) :
                          Unembeddable(RowsOf(view, a)[i]))
    => /\ ~last.ret
       /\ \A b \in TableNames : \A i \in 1..Len(RowsOf(view, b)) :
              ~Embeddable(RowsOf(view, b)[i])

\* C3 as stated: after a completed ingestion no row has raw_text populated;
\* no final row carries raw_text next to its chunk_text and embedding.
C3_NoRawTextAfterIngestion ==
    GenerateSucceeded =>
        \A t \in TableNames : \A i \in 1..Len(RowsOf(view, t)) :
            ~Truthy(RowsOf(view, t)[i].raw_text)

\* C3 amended: after a completed ingestion the only rows with a non-empty
\* raw_text are the final rows of chunk index 0 (id = placeholder id * 10000 + 1),
\* which keep the whole document text next to their chunk_text and embedding;
\* every other final row has a NULL raw_text.
C3_RawTextOnlyOnFirstChunk ==
    GenerateSucceeded =>
        \A t \in TableNames : \A i \in 1..Len(RowsOf(view, t)) :
            LET r == RowsOf(view, t)[i]
            IN  /\ IsPlaceholder(r) => ~Truthy(r.raw_text)
                /\ (IsFinal(r) /\ r.id % 10000 = 1) =>
                       /\ Truthy(r.raw_text)
                       /\ r.chunk_text = split_text(r.raw_text)[1]
                /\ (IsFinal(r) /\ r.id % 10000 # 1) => r.raw_text = NULL

\* a successful pass left a collection with final rows of chunk index 0 and 1
C3_Witness ==
    /\ GenerateSucceeded
    /\ \E t \in TableNames :
           /\ Len(RowsOf(view, t)) >= 2
           /\ \A i \in 1..Len(RowsOf(view, t)) : IsFinal(RowsOf(view, t)[i])

\* C4: right after a successful save_document(name, text) the collection
\* sanitise_table_name(name) exists and holds exactly one row, a placeholder
\* with raw_text = text and NULL chunk_text and embeddings, in the connection
\* and in the file; nothing of what it held before is left.
C4_SaveLeavesOnePlaceholder ==
    SaveSucceeded =>
        LET t == sanitise_table_name(last.name)
            rows == RowsOf(view, t)
        IN  /\ TableExists(view, t)
            /\ Len(rows) = 1
            /\ rows[1].raw_text = last.content
            /\ rows[1].chunk_text = NULL
            /\ rows[1].embeddings = NULL
            /\ RowsOf(disk, t) = rows
            /\ TableExists(disk, t)

\* a save that found several rows (final rows of an earlier pass) in the collection
C4_Witness == SaveSucceeded /\ last.count >= 2

\* a save that found exactly one row (a placeholder never materialized)
C4_WitnessStalePlaceholder == SaveSucceeded /\ last.count = 1

\* C5: save_document then generate_and_save_embeddings, run twice in a row
\* on the same document with the embedding service unchanged, leaves the
\* collection after the second pass exactly as after the first: same rows,
\* ids, chunk texts and embeddings, and the same return value.
C5_ReindexIdempotent ==
    reidx.stage = 4 =>
        /\ RowsOf(view, sanitise_table_name(reidx.name)) = reidx.rows
        /\ last.ret = reidx.ret

\* two successful passes over a document of two chunks
C5_Witness ==
    /\ reidx.stage = 4
    /\ last.ret
    /\ Len(reidx.rows) >= 2
    /\ \A i \in 1..Len(reidx.rows) : IsFinal(reidx.rows[i])

\* C6: every final row inserted for chunk index i of a placeholder has
\* id = placeholder id * 10000 + i + 1; the ids inserted into one collection
\* are ascending in insertion (chunk) order, hence distinct, and differ from
\* the id of every placeholder row in the collection at that moment; the row
\* of index i carries the i-th chunk of the splitter.
C6_ChunkIds ==
    AfterGenerate =>
        \A k \in 1..Len(last.log) :
            LET e == last.log[k]
            IN  /\ e.id = e.doc_id * 10000 + e.i + 1
                /\ e.id \notin e.placeholders
                /\ e.doc_id \in e.placeholders
                /\ \A j \in 1..(k - 1) :
                       last.log[j].table = e.table => last.log[j].id < e.id
                /\ (reidx.stage \in {2, 4} /\ e.table = sanitise_table_name(reidx.name))
                       => e.chunk = split_text(reidx.content)[e.i + 1]

\* a pass that inserted the rows of chunk index 0 and 1 of one document
C6_Witness ==
    /\ AfterGenerate
    /\ \E j, k \in 1..Len(last.log) :
           /\ last.log[j].table = last.log[k].table
           /\ last.log[j].i = 0
           /\ last.log[k].i = 1

\* no row of the store awaits embedding
Materialized(db) ==
    \A t \in Range(db.order) : \A r \in Range(db.rows[t]) : ~(IsPlaceholder(r) /\ Truthy(r.raw_text))

GenerateStep == last'.op = "generate"

\* C28: generate_and_save_embeddings is idempotent on a materialized store:
\* called again with no save_document in between, it inserts, deletes and
\* modifies no row in any collection and calls the embedding service zero
\* times.
C28_GenerateIdempotent ==
    [][(GenerateStep /\ Materialized(view)) =>
           /\ view' = view
           /\ disk' = disk
           /\ last'.log = <<>>
           /\ last'.ret]_vars

\* generate has run on a store whose rows are all final, and did nothing
C28_Witness ==
    /\ last.op = "generate"
    /\ last.log = <<>>
    /\ \E t \in Range(view.order) : view.rows[t] # <<>>
    /\ \A t \in Range(view.order) : \A r \in Range(view.rows[t]) : IsFinal(r)

UnreadableSaveStep == last'.op = "save" /\ last'.content = NoFile

\* C29: when save_document fails because the document file cannot be read,
\* the store is unchanged (no collection is created, the rows of an existing
\* collection of that name are neither deleted nor modified) and the
\* function returns False.
C29_UnreadableSaveChangesNothing ==
    [][UnreadableSaveStep =>
           /\ view' = view
           /\ disk' = disk
           /\ ~last'.ret]_vars

\* an unreadable file saved under the name of a collection with final rows
C29_Witness ==
    /\ last.op = "save"
    /\ last.content = NoFile
    /\ TableExists(view, sanitise_table_name(last.name))
    /\ \E r \in Range(RowsOf(view, sanitise_table_name(last.name))) : IsFinal(r)

\* and under a name that has no collection
C29_WitnessNew ==
    /\ last.op = "save"
    /\ last.content = NoFile
    /\ sanitise_table_name(last.name) # <<>>
    /\ ~TableExists(view, sanitise_table_name(last.name))

----------------------------------------------------------------------------
(* Properties of the sanitiser *)

\* C7: sanitise_table_name is idempotent: sanitising its result returns the
\* result unchanged, for every name, also when the result got the doc_ prefix.
C7_SanitiseIdempotent ==
    sanitise_table_name(sanOut) = sanOut

IsTokenStart(s, i) ==
    s[i] \notin SeparatorChars /\ (i = 1 \/ s[i - 1] \in SeparatorChars)

RECURSIVE TokenEnd(_, _)
\* the last index of the separator-free run that contains index i
TokenEnd(s, i) ==
    IF i < Len(s) /\ s[i + 1] \notin SeparatorChars THEN TokenEnd(s, i + 1) ELSE i

\* the start indices of the first n maximal separator-free substrings
FirstTokenStarts(s, n) ==
    {i \in 1..Len(s) :
        /\ IsTokenStart(s, i)
        /\ Cardinality({j \in 1..i : IsTokenStart(s, j)}) <= n}

RECURSIVE JoinTokens(_, _)
\* the tokens starting at the indices of starts, lowercased, joined by "_"
JoinTokens(s, starts) ==
    IF starts = {} THEN <<>>
    ELSE LET i == CHOOSE x \in starts : \A y \in starts : x <= y
             tok == Lower(SubSeq(s, i, TokenEnd(s, i)))
         IN  IF starts = {i} THEN tok
             ELSE tok \o <<"_">> \o JoinTokens(s, starts \ {i})

ExpectedIdentifier(s) ==
    LET joined == JoinTokens(s, FirstTokenStarts(s, 3))
    IN  IF joined # <<>> /\ joined[1] \in DigitChars
        THEN <<"d", "o", "c", "_">> \o joined
        ELSE joined

\* C8: sanitise_table_name returns the first min(3, n) tokens (maximal
\* substrings without whitespace, hyphen or underscore), lowercased and
\* joined by single underscores, with doc_ in front exactly when that begins
\* with a digit; also for names that begin or end with separators.
C8_FirstThreeTokens ==
    sanOut = ExpectedIdentifier(sanIn)

----------------------------------------------------------------------------
(* Properties of the search *)

QueryReturned == last.op = "query" /\ last.ret

ScannedTables == SearchTables(disk, last.name)

\* the places <<table index, row index>> of the rows that have both a
\* chunk_text and an embedding, in the tables the query scans
EligibleAt ==
    UNION { { <<ti, ri>> : ri \in {r \in 1..Len(RowsOf(disk, ScannedTables[ti])) :
                                      IsFinal(RowsOf(disk, ScannedTables[ti])[r])} } :
            ti \in 1..Len(ScannedTables) }

RowAt(at) == RowsOf(disk, ScannedTables[at[1]])[at[2]]

ScoreAt(at) ==
    cosine_similarity(embed_query(last.content), stored_embedding(RowAt(at).embeddings))

ReturnedAt == {found[i].at : i \in 1..Len(found)}

\* C9: for k >= 0 query_similarity returns exactly min(k, N) results, N the
\* number of scanned rows with both chunk_text and embedding; each result is
\* one such row with its score, no row twice; the scores are non-increasing
\* and no row left out scores strictly higher than a returned one.
C9_TopK ==
    (QueryReturned /\ last.count >= 0) =>
        /\ Len(found) = Min(last.count, Cardinality(EligibleAt))
        /\ Cardinality(ReturnedAt) = Len(found)
        /\ \A i \in 1..Len(found) :
               /\ found[i].at \in EligibleAt
               /\ found[i].similarity = ScoreAt(found[i].at)
               /\ found[i].page_content = RowAt(found[i].at).chunk_text
               /\ found[i].source = ScannedTables[found[i].at[1]]
        /\ \A i \in 1..(Len(found) - 1) :
               SimLeq(found[i + 1].similarity, found[i].similarity)
        /\ \A at \in EligibleAt \ ReturnedAt : \A i \in 1..Len(found) :
               SimLeq(ScoreAt(at), found[i].similarity)

\* a query that returned k >= 1 rows and left out a row with a lower score
C9_Witness ==
    /\ QueryReturned
    /\ last.count >= 1
    /\ Len(found) = last.count
    /\ \E at \in EligibleAt \ ReturnedAt : SimLess(ScoreAt(at), found[Len(found)].similarity)

\* at1 comes before at2 in the scan: an earlier table, or an earlier row of
\* the same table
ScannedBefore(at1, at2) ==
    at1[1] < at2[1] \/ (at1[1] = at2[1] /\ at1[2] < at2[2])

\* C10: results with equal scores are returned in row-scan order (order of
\* the collections, then of the rows in a collection).
C10_TiesInScanOrder ==
    QueryReturned =>
        \A i, j \in 1..Len(found) :
            (i < j /\ SimEq(found[i].similarity, found[j].similarity))
                => ScannedBefore(found[i].at, found[j].at)

\* a query that returned two rows of equal score from two collections
C10_Witness ==
    /\ QueryReturned
    /\ \E i, j \in 1..Len(found) :
           /\ i < j
           /\ SimEq(found[i].similarity, found[j].similarity)
           /\ found[i].source # found[j].source

\* the cases of a search that has nothing to find: the store has no
\* collections, the named collection does not exist, or the scanned
\* collections hold no final rows
NamedCollectionMissing ==
    Truthy(last.name) /\ ~TableExists(disk, sanitise_table_name(last.name))

NothingToFind ==
    \/ get_tables(disk) = <<>>
    \/ NamedCollectionMissing
    \/ (\A i \in 1..Len(ScannedTables) : TableExists(disk, ScannedTables[i])) /\ EligibleAt = {}

\* C11: when the store has no collections, or the named collection does not
\* exist, or the scanned collections hold no final rows, a query whose
\* embedding succeeds returns an empty list and does not raise, for every
\* query and every k.
C11_NothingToFindReturnsEmpty ==
    (last.op = "query" /\ last.content # failOn /\ NothingToFind) =>
        (last.ret /\ found = <<>>)

\* the search the last step made had no embedding model: query_similarity was
\* given None, or the vector store was made with None while the module's
\* embeddings object is None too
NoModelConfigured ==
    /\ last.op = "query"
    /\ \/ last.log[1].via = "direct" /\ last.log[1].given = NULL
       \/ last.log[1].via = "store" /\ last.log[1].given = NULL /\ embeddings = NULL

----------------------------------------------------------------------------
(* Properties of the conversation *)

QueryAnswered == qaLast.op = "query" /\ reply.kind = "answer"
QueryFailed == qaLast.op = "query" /\ reply.kind = "error"

\* C13: a successful QAChain.query(question) appends exactly two turns to the
\* conversation history, (human, question) followed by (assistant, answer),
\* in that order, leaves all earlier turns unchanged, and returns the answer.
C13_QueryAppendsTwoTurns ==
    QueryAnswered =>
        /\ Len(chain.current) = Len(qaLast.before) + 2
        /\ SubSeq(chain.current, 1, Len(qaLast.before)) = qaLast.before
        /\ chain.current[Len(qaLast.before) + 1] =
               [role |-> "human", content |-> qaLast.question]
        /\ chain.current[Len(qaLast.before) + 2] =
               [role |-> "ai", content |-> reply.text]
        /\ reply.text \in Answers
        /\ ~qaLast.raised

\* a second successful query, on a history that already holds turns
C13_Witness ==
    /\ QueryAnswered
    /\ qaLast.before # <<>>
    /\ qaLast.question # qaLast.before[1].content

\* the text an error reply begins with
IsErrorText(text) == Len(text) >= 1 /\ text[1] = ErrorPrefix[1]

\* C14: when a step of QAChain.query fails (embedding of the question, the
\* similarity search or the completion call), the history after the call is
\* the history before it, and the call returns an error description instead
\* of an answer.
C14_FailedQueryKeepsHistory ==
    QueryFailed =>
        /\ chain.current = qaLast.before
        /\ IsErrorText(reply.text)
        /\ reply.text \notin Answers

\* a failing retrieval and a failing completion call, each on a history
\* that holds turns
C14_WitnessRetrieval ==
    QueryFailed /\ qaLast.before # <<>> /\ qaLast.stage = "retrieval" /\ ~sent.made
C14_Witness ==
    QueryFailed /\ qaLast.before # <<>> /\ qaLast.stage = "completion" /\ sent.made

\* a step of reset_chat_history
ResetStep == qaLast'.op = "reset" /\ (qaLast' # qaLast \/ chain' # chain)

\* C15: reset_chat_history leaves the conversation history empty, from any
\* state of the history, and changes nothing in the document store.
C15_ResetEmptiesHistoryOnly ==
    [][ResetStep => (chain'.current = <<>> /\ disk' = disk /\ view' = view)]_vars

\* a reset of a history that held turns, over a store that holds a collection
C15_Witness ==
    /\ qaLast.op = "reset"
    /\ qaLast.before # <<>>
    /\ chain.current = <<>>
    /\ get_tables(disk) # <<>>

\* the turns appended by the successful queries since the last reset or the
\* creation of the chain, as they stood when the last query began
SinceBeforeQuery ==
    IF reply.kind = "answer" THEN SubSeq(since, 1, Len(since) - 2) ELSE since

\* C16: the history passed to the completion service by a query is exactly
\* the sequence of turns appended by the successful queries since the last
\* reset (or since creation), in order; the first query after a reset is
\* sent with an empty history.
C16_PromptHistorySinceReset ==
    (qaLast.op = "query" /\ sent.made) =>
        /\ sent.history = SinceBeforeQuery
        /\ (Len(since) <= (IF reply.kind = "answer" THEN 2 ELSE 0) => sent.history = <<>>)

\* the first query after a reset that followed answered queries
C16_Witness ==
    /\ qaLast.op = "query"
    /\ sent.made
    /\ ~chain.same
    /\ chain.initial # <<>>
    /\ sent.history = <<>>

\* and a query sent with the turns of an earlier one
C16_WitnessHistory ==
    qaLast.op = "query" /\ sent.made /\ Len(sent.history) = 2

IsPrefix(s, t) == Len(s) <= Len(t) /\ SubSeq(t, 1, Len(s)) = s

\* C17: the conversation history of a session loses turns only through an
\* explicit reset: after a query, a failed query, an added document or a
\* reindex the history still begins with the turns it held before.
C17_OnlyResetLosesTurns ==
    qaLast.op \in {"query", "add", "reindex"} => IsPrefix(qaLast.before, chain.current)

\* C18: when the similarity search returns no results, the context placed in
\* the completion request is the non-empty "nothing found" message, never the
\* empty string, and the query proceeds to the completion service.
C18_NothingFoundContext ==
    (qaLast.op = "query" /\ qaLast.stage # "retrieval" /\ found = <<>>) =>
        /\ sent.made
        /\ sent.context = NothingFound
        /\ sent.context # <<>>
        /\ sent.question = qaLast.question

\* a query answered over a store without final rows
C18_Witness ==
    /\ QueryAnswered
    /\ found = <<>>
    /\ sent.context = NothingFound

\* turns come in pairs, a human turn followed by an assistant turn
Alternates(h) ==
    /\ Len(h) % 2 = 0
    /\ \A i \in 1..Len(h) : h[i].role = IF i % 2 = 1 THEN "human" ELSE "ai"

\* C27: between operations, after any sequence of successful queries, failed
\* queries and resets on one QAChain, the conversation history has even
\* length and alternates human, assistant, starting with a human turn.
C27_HistoryAlternates == Alternates(chain.current)

\* a query that failed on a history holding an answered question
C27_Witness ==
    /\ QueryFailed
    /\ Len(chain.current) = 2
    /\ chain.current = qaLast.before

----------------------------------------------------------------------------
(* Properties of failures *)

\* C19: QAChain.query and process_all_documents never propagate an exception
\* to their caller: for every failure of the store, the embedding service or
\* the completion service they return a value, an error text respectively
\* False.
C19_NoExceptionPropagates ==
    /\ last.op # "ingest raised"
    /\ (last.op = "ingest" /\ last.content # <<"none">>) => last.ret = FALSE
    /\ qaLast.op = "query" =>
           /\ ~qaLast.raised
           /\ reply.kind \in {"answer", "error"}
           /\ qaLast.stage # "none" => (reply.kind = "error" /\ IsErrorText(reply.text))

\* a pass that could not open the database, then a query whose search failed
C19_Witness ==
    /\ last.op = "ingest"
    /\ last.content = <<"connect">>
    /\ ~last.ret
    /\ QueryFailed
    /\ qaLast.stage = "retrieval"

\* and a query whose completion call failed after a pass whose embedding failed
C19_WitnessServices ==
    /\ last.op = "ingest"
    /\ last.content = <<"generate">>
    /\ QueryFailed
    /\ qaLast.stage = "completion"

\* the collection holds a placeholder of a document one of whose chunks the
\* embedding service fails on
FailingPlaceholders(t) ==
    {r \in Range(RowsOf(disk, t)) :
        IsPlaceholder(r) /\ Truthy(r.raw_text) /\ failOn \in Range(split_text(r.raw_text))}

AfterFailedPass == last.op = "ingest" /\ last.content = <<"generate">>

\* C20: when the embedding service fails on a chunk of a document during an
\* ingest pass, the pass returns False and, once it has returned, the
\* collection of that document holds only the placeholder row and no final
\* row; no row with chunk_text but without an embedding is ever visible.
C20_FailedPassLeavesPlaceholder ==
    /\ \A t \in TableNames : \A r \in Range(RowsOf(disk, t)) :
           r.chunk_text # NULL => r.embeddings # NULL
    /\ last.op = "ingest" =>
           \A t \in TableNames :
               FailingPlaceholders(t) # {} =>
                   /\ ~last.ret
                   /\ Len(RowsOf(disk, t)) = 1
                   /\ \A r \in Range(RowsOf(disk, t)) : ~IsFinal(r)

\* the service failed on the second chunk of a document, after the row of
\* its first chunk had been inserted
C20_Witness ==
    /\ AfterFailedPass
    /\ \E t \in TableNames :
           /\ FailingPlaceholders(t) # {}
           /\ \E i \in 1..Len(last.log) : last.log[i].table = t /\ last.log[i].i = 0
           /\ \E r \in FailingPlaceholders(t) : split_text(r.raw_text)[2] = failOn

----------------------------------------------------------------------------
(* Properties of an ingest pass *)

PassReturned == last.op = "ingest"
PassFiles == last.name

\* the collection of a file holds a placeholder that still waits for its
\* embeddings
Unmaterialized(f) ==
    \E r \in Range(RowsOf(disk, sanitise_table_name(f.name))) :
        IsPlaceholder(r) /\ Truthy(r.raw_text)

\* C21: process_all_documents returns True only if every discovered document
\* was saved and materialized: when save_document fails for a file, or the
\* embedding fails for a document, the result is False.
C21_TrueOnlyIfAllSaved ==
    (PassReturned /\ last.ret) =>
        \A i \in 1..Len(PassFiles) :
            /\ PassFiles[i].content # NoFile
            /\ ~Unmaterialized(PassFiles[i])

\* the pass opened the database and went through its saves
PassSaved == PassReturned /\ last.content # <<"connect">>

\* files i and j of the pass were both saved into one collection
Colliding(i, j) ==
    /\ i < j
    /\ PassFiles[i].content # NoFile
    /\ PassFiles[j].content # NoFile
    /\ sanitise_table_name(PassFiles[i].name) = sanitise_table_name(PassFiles[j].name)

\* the rows are the final rows of the text, one per chunk and in chunk order
FinalRowsOf(rows, text) ==
    /\ ChunkTexts(rows) = split_text(text)
    /\ \A r \in Range(rows) : IsFinal(r)

\* the rows are the placeholder of the text
PlaceholderOf(rows, text) ==
    Len(rows) = 1 /\ IsPlaceholder(rows[1]) /\ rows[1].raw_text = text

\* C26: when two discovered documents have names that sanitise to the same
\* identifier, after an ingest pass the shared collection holds the final rows
\* of exactly one of them, the one saved last, and no row of the other:
\* chunks of two documents are never mixed in one collection.
C26_CollisionKeepsLastSaved ==
    PassSaved =>
        \A i \in 1..Len(PassFiles), j \in 1..Len(PassFiles) :
            (Colliding(i, j) /\ j = Len(PassFiles)) =>
                IF last.ret
                THEN FinalRowsOf(RowsOf(disk, sanitise_table_name(PassFiles[j].name)),
                                 PassFiles[j].content)
                ELSE \/ FinalRowsOf(RowsOf(disk, sanitise_table_name(PassFiles[j].name)),
                                    PassFiles[j].content)
                     \/ PlaceholderOf(RowsOf(disk, sanitise_table_name(PassFiles[j].name)),
                                      PassFiles[j].content)

\* B and b with different texts, saved in one pass that returned True
C26_Witness ==
    /\ PassReturned
    /\ last.ret
    /\ Len(PassFiles) = 2
    /\ Colliding(1, 2)
    /\ PassFiles[1].name # PassFiles[2].name
    /\ PassFiles[1].content # PassFiles[2].content

FinalRows(db, t) == {r \in Range(RowsOf(db, t)) : IsFinal(r)}

\* a readable file of the files is saved into collection t
SavedInto(files, t) ==
    \E i \in 1..Len(files) :
        files[i].content # NoFile /\ sanitise_table_name(files[i].name) = t

PassStep == last'.op \in {"ingest", "ingest raised"}

\* C30: no operation ever removes a collection: once a document is ingested
\* its collection and final rows stay in the store, where an all-collections
\* search reads them, through any number of later ingest passes, also when
\* its file is no longer in the documents directory; only a save_document
\* for the same sanitised name replaces its rows.
C30_CollectionsStay ==
    [][/\ Range(disk.order) \subseteq Range(disk'.order)
       /\ \A t \in Range(disk.order) :
              (PassStep /\ SavedInto(last'.name, t)) \/ FinalRows(disk, t) \subseteq FinalRows(disk', t)
      ]_vars

\* a pass over a directory without the file of a collection that has final
\* rows, which are still there afterwards
C30_Witness ==
    /\ PassSaved
    /\ PassFiles # <<>>
    /\ last.ret
    /\ \E t \in Range(disk.order) : ~SavedInto(PassFiles, t) /\ FinalRows(disk, t) # {}

----------------------------------------------------------------------------
(* Properties of cosine_similarity *)

ZeroVector(v) == \A i \in 1..Len(v) : v[i] = 0

\* C22: cosine_similarity(a, b) returns 0.0 and raises no error whenever a or
\* b is the zero vector, and cosine_similarity(a, b) = cosine_similarity(b, a)
\* for vectors of equal length.
C22_ZeroAndSymmetric ==
    /\ (ZeroVector(cosA) \/ ZeroVector(cosB)) =>
           (cosOut.forward.num = 0 /\ cosOut.forward.den2 > 0)
    /\ cosOut.forward = cosOut.backward
    /\ cosOut.forward.den2 > 0

\* a zero second vector against a non-zero first one
C22_Witness ==
    /\ ~ZeroVector(cosA)
    /\ ZeroVector(cosB)
    /\ cosOut.forward.num = 0

\* and two vectors at an obtuse angle, scored alike in both orders
C22_WitnessNegative ==
    cosOut.forward.num < 0 /\ cosA # cosB /\ cosOut.forward = cosOut.backward

----------------------------------------------------------------------------
(* Properties of a pass and a search running side by side *)

\* the results the running search has from collection t
Observed(t) == SelectSeq(scan.results, LAMBDA h : h.source = t)

\* hits are the chunks of text, each once
CompleteVersion(hits, text) ==
    /\ Len(hits) = Len(split_text(text))
    /\ \A c \in Range(split_text(text)) : \E i \in 1..Len(hits) : hits[i].page_content = c

\* C23: a similarity search on its own connection, interleaved at any point
\* with an ingest pass, observes for each collection either no final rows or
\* the complete set of final rows of one version of the document, never a
\* non-empty strict subset of a document's chunks, nor chunks of the old and
\* the new version together.
C23_SearchSeesWholeVersions ==
    \A t \in TableNames :
        \/ Observed(t) = <<>>
        \/ \E text \in PassTexts : CompleteVersion(Observed(t), text)

\* a search has read a collection and found no final row while the pass
\* holds rows of a document it could not finish
C23_Witness ==
    /\ pass.pc = "close"
    /\ view # disk
    /\ scan.pc = "scan"
    /\ scan.ti > 1
    /\ scan.results = <<>>

\* and a search returns the rows of a whole version while the pass is
\* replacing them
C23_WitnessReplaced ==
    /\ scan.pc = "returned"
    /\ scan.results # <<>>
    /\ pass.pc = "insert"
    /\ view.rows[PassTable] = <<>>
    /\ Observed(PassTable) # <<>>

\* C25: every store connection opened by a logical operation (a similarity
\* search, an ingest pass) is closed by the time that operation returns, on
\* every exit path: normal return, no documents found, and failure.
C25_ConnectionsClosedOnReturn ==
    /\ pass.pc = "returned" => ~connOpen
    /\ scan.pc = "returned" => ~scan.open

----------------------------------------------------------------------------
(* Properties of the window *)

\* C24: in the GUI at most one background worker (a query or a reindex) is in
\* flight at any time: from the moment a send or reindex starts its worker
\* until that worker's completion callbacks have run, no further query,
\* reindex or conversation reset can be started.
C24_SingleFlight == Len(gui.workers) <= 1

====
